---- MODULE Spec2Model ----
(***************************************************************************)
(* Model of the AI Guardian surveillance core:                             *)
(*   - AIDetector._update_tracking   (src/src/detector/ai_detector.py)     *)
(*   - AIDetector.process_frame      (src/src/detector/ai_detector.py)     *)
(*   - AlertManager                  (src/src/alerts/alert_manager.py)     *)
(*   - CameraManager                 (src/src/utils/camera_manager.py)     *)
(* The tracker is a sequential component (one update per tick); the alert  *)
(* manager is modelled at the granularity of its statements, with producer *)
(* threads, resolver threads, the dispatch worker and the cleanup caller.  *)
(***************************************************************************)
EXTENDS Integers, Sequences, FiniteSets, TLC

(***************************************************************************)
(* Bounds of the model                                                     *)
(***************************************************************************)
MaxTime == 6
MaxDets == 2
MaxAlerts == 2
MaxClock == 1
MaxCallbacks == 2
MaxHandled == 2
MaxLimit == 3
MaxFrames == 3
MaxGets == 2
MaxRaw == 3
MaxQueued == 3

(***************************************************************************)
(* Program constants                                                       *)
(***************************************************************************)
AssocThreshold == 100
TrackTimeout == 5
RecentWindow == 3600
SecondsPerDay == 86400
FrameQueueSize == 2
\* The detector's configuration: the confidence threshold in percent, and a
\* maximum of detections per frame (config key 'max_detections') of 2.
ConfidenceThreshold == 50
MaxDetections == 2
\* Its suspicious-activity settings (config keys 'loitering_time' and
\* 'crowd_threshold'): a loitering time below the track timeout, a crowd of 2.
LoiteringTime == 4
CrowdThreshold == 2

VARIABLES
    tracked_objects,  \* AIDetector.tracked_objects: the dict, in insertion order
    current_time,     \* time.time() as read by the last _update_tracking
    annot,            \* per detection of the last update: detection.track_id and
                      \* what the association saw when it assigned it
    evicted,          \* the ids the last update removed as timed out
    maxIssued         \* the greatest id a new track has been created under

trackerVars == <<tracked_objects, current_time, annot, evicted, maxIssued>>

VARIABLES
    clock,          \* the wall clock as last read by time.time() or datetime.now()
    heap,           \* the Alert objects created so far, by object identity
    alert_counter,  \* AlertManager.alert_counter
    alert_queue,    \* AlertManager.alert_queue (queue.Queue): object references
    active_alerts,  \* AlertManager.active_alerts: alert_id -> object reference
    alert_history,  \* AlertManager.alert_history: object references
    is_running,     \* AlertManager.is_running
    ppc, p_tmp, p_obj,   \* producers in trigger_alert: position and locals
    rpc, r_id, r_alert,  \* resolvers in resolve_alert: position and locals
    wpc, w_alert,        \* the dispatch worker: position and the alert in hand
    cpc,                 \* the caller of cleanup: position
    enqueued             \* the alerts put on the queue, in the order of the puts

alertVars == <<clock, heap, alert_counter, alert_queue, active_alerts, alert_history,
               is_running, ppc, p_tmp, p_obj, rpc, r_id, r_alert, wpc, w_alert, cpc,
               enqueued>>

VARIABLES
    visual_enabled,   \* AlertManager.visual_enabled
    audio_enabled,    \* AlertManager.audio_enabled
    logging_enabled,  \* AlertManager.logging_enabled
    loaded_sounds,    \* AlertManager.loaded_sounds: the sound types loaded
    alert_callbacks,  \* AlertManager.alert_callbacks: the callbacks, in order
    handled,          \* the alerts _handle_alert has been run for
    worker_alive,     \* the worker is still in its loop after the last of them
    dispatch          \* what the sinks did for the last of them

sinkVars == <<visual_enabled, audio_enabled, logging_enabled, loaded_sounds,
              alert_callbacks, handled, worker_alive, dispatch>>

VARIABLES
    history_result,   \* the last get_alert_history call: its limit and its result
    stats_result      \* the last get_alert_stats call: its clock reading and counts

queryVars == <<history_result, stats_result>>

VARIABLES
    cam_registered,   \* camera_id is a key of cameras, frame_queues, current_frames,
                      \* frame_locks and is_running (lines 82-86)
    cap,              \* the cv2.VideoCapture handle: "none", "open" or "released"
    cam_is_running,   \* CameraManager.is_running[camera_id]
    capture_threads,  \* CameraManager.capture_threads[camera_id]: a loop, or NoLoop
    current_frames,   \* CameraManager.current_frames[camera_id]: a frame, or NoFrame
    frame_queue,      \* CameraManager.frame_queues[camera_id]: the frames buffered
    images,           \* the images the device has delivered to cap.read()
    lpc, l_frame,     \* the capture loops (_capture_frames): position and frame read
    kpc,              \* the thread that calls start_capture, stop_capture, cleanup
    last_op,          \* the last call that thread has returned from, with its result
    gets,             \* the get_frame calls that have returned a frame
    last_get,         \* the last get_frame call: its result and what preceded it
    returned,         \* the frames get_frame has returned to its callers
    last_stored       \* the frame a capture loop stored last in current_frames

camVars == <<cam_registered, cap, cam_is_running, capture_threads, current_frames,
             frame_queue, images, lpc, l_frame, kpc, last_op, gets, last_get,
             returned, last_stored>>

VARIABLES
    classes_of_interest,  \* AIDetector.classes_of_interest: the allow-list
    tick,                 \* the last process_frame call: what it saw and returned
    filter_input,         \* the argument of the last _filter_detections call
    filter_result,        \* its result
    matched_ticks         \* per track id of the table, as an observer of the frames
                          \* counts them: the consecutive frames, up to the last
                          \* one, in which a detection was matched to the track

detVars == <<classes_of_interest, tick, filter_input, filter_result, matched_ticks>>

VARIABLES
    running,                 \* Dashboard.running
    is_surveillance_active,  \* Dashboard.is_surveillance_active
    update_thread,           \* Dashboard.update_thread: an update loop, or NoLoop
    upc,                     \* the update loops (update_loop): their position
    start_button,            \* the state of the START SURVEILLANCE button
    stop_button              \* the state of the STOP SURVEILLANCE button

dashVars == <<running, is_surveillance_active, update_thread, upc, start_button,
              stop_button>>

vars == <<trackerVars, alertVars, sinkVars, queryVars, camVars, detVars, dashVars>>

\* What the actions of one component leave alone.
notTrackerVars == <<alertVars, sinkVars, queryVars, camVars, detVars, dashVars>>
notAlertVars == <<trackerVars, sinkVars, queryVars, camVars, detVars, dashVars>>
notSinkVars == <<trackerVars, alertVars, queryVars, camVars, detVars, dashVars>>
notQueryVars == <<trackerVars, alertVars, sinkVars, camVars, detVars, dashVars>>
notCamVars == <<trackerVars, alertVars, sinkVars, queryVars, detVars, dashVars>>
notDetVars == <<sinkVars, queryVars, camVars, dashVars>>
\* What a call into the camera manager and a frame of the pipeline leave alone,
\* whoever makes the call.
besideCamVars == <<trackerVars, alertVars, sinkVars, queryVars, detVars>>
besideDetVars == <<sinkVars, queryVars>>

(***************************************************************************)
(* Inputs of the tracker                                                   *)
(***************************************************************************)
Classes == {"person", "car"}
Centers == {<<0, 0>>, <<30, 40>>, <<60, 80>>}
Confidences == {8}
ClockSteps == {0, 5, 6}

\* Persons anywhere, a car at the first center only: the class check is exercised
\* by a car and a person at the same place.
Detections ==
    {d \in [class_name : Classes, center : Centers, confidence : Confidences] :
        d.class_name = "car" => d.center = <<0, 0>>}

DetLists == UNION {[1..n -> Detections] : n \in 0..MaxDets}

Max(a, b) == IF a >= b THEN a ELSE b

Min(a, b) == IF a < b THEN a ELSE b

(***************************************************************************)
(* The dict of tracks is a sequence of entries holding their key (id), in  *)
(* the dict's insertion order.                                             *)
(***************************************************************************)
TrackIds(table) == {table[i].id : i \in 1..Len(table)}

TrackOf(table, tid) == table[CHOOSE i \in 1..Len(table) : table[i].id = tid]

\* (dx)^2 + (dy)^2: the argument of np.sqrt.  np.sqrt is strictly monotone on
\* these integers, so distances are compared through their squares.
Dist2(a, b) == (a[1] - b[1]) * (a[1] - b[1]) + (a[2] - b[2]) * (a[2] - b[2])

\* A variant of WithinThreshold that accepts a distance equal to the threshold.
WithinThresholdLe(d2) == d2 <= AssocThreshold * AssocThreshold

\* distance < 100
WithinThreshold(d2) == d2 < AssocThreshold * AssocThreshold

\* A variant of Closer that also takes a track at the same distance.
CloserOrEqual(d2, mind2) == mind2 = -1 \/ d2 <= mind2

\* distance < min_distance, where min_distance starts at float('inf').
Closer(d2, mind2) == mind2 = -1 \/ d2 < mind2

\* The inner loop over tracked_objects.items(): best is the key of the closest
\* same-class track seen so far (0 stands for None), mind2 the square of
\* min_distance (-1 stands for float('inf')).
RECURSIVE FindBest(_, _, _, _, _)
FindBest(table, det, i, best, mind2) ==
    IF i > Len(table) THEN best
    ELSE LET t == table[i]
             d2 == Dist2(det.center, t.last_center)
         IN IF /\ t.class = det.class_name
               /\ Closer(d2, mind2)
               /\ WithinThreshold(d2)
            THEN FindBest(table, det, i + 1, t.id, d2)
            ELSE FindBest(table, det, i + 1, best, mind2)

\* tracked_objects[best_match].update({...})
UpdateTrack(table, tid, det, now) ==
    [i \in 1..Len(table) |->
        IF table[i].id = tid
        THEN [table[i] EXCEPT !.last_center = det.center,
                              !.last_seen = now,
                              !.confidence = det.confidence]
        ELSE table[i]]

\* new_track_id = len(self.tracked_objects) + 1
NewTrackId(table) == Len(table) + 1

\* A variant of NewTrack that records a new track as never seen.
NewTrackUnseen(tid, det, now) ==
    [id |-> tid, class |-> det.class_name, first_seen |-> now, last_seen |-> 0,
     last_center |-> det.center, confidence |-> det.confidence]

\* Lines 421-427.
NewTrack(tid, det, now) ==
    [id |-> tid, class |-> det.class_name, first_seen |-> now, last_seen |-> now,
     last_center |-> det.center, confidence |-> det.confidence]

\* tracked_objects[new_track_id] = {...}: assigning to an existing key replaces
\* the value in place, a new key is appended.
StoreTrack(table, tid, det, now) ==
    IF tid \in TrackIds(table)
    THEN [i \in 1..Len(table) |->
            IF table[i].id = tid THEN NewTrack(tid, det, now) ELSE table[i]]
    ELSE Append(table, NewTrack(tid, det, now))

\* One iteration of the loop over the detections.
ProcessDetection(table, det, now) ==
    LET best == FindBest(table, det, 1, 0, -1)
    IN IF best # 0
       THEN [table |-> UpdateTrack(table, best, det, now),
             track_id |-> best, isNew |-> FALSE]
       ELSE LET tid == NewTrackId(table)
            IN [table |-> StoreTrack(table, tid, det, now),
                track_id |-> tid, isNew |-> TRUE]

\* A variant of Expired with the timeout one time unit longer.
ExpiredLate(t, now) == now - t.last_seen > TrackTimeout + 1

\* current_time - track_info['last_seen'] > 5.0
Expired(t, now) == now - t.last_seen > TrackTimeout

\* "Remove old tracks"
Evict(table, now) ==
    LET Keep(t) == ~Expired(t, now) IN SelectSeq(table, Keep)

\* The square of the distance from det to the nearest same-class track of the
\* table (-1 when the table holds no track of that class).
NearestDist2(table, det) ==
    LET ds == {Dist2(det.center, table[i].last_center) :
                  i \in {j \in 1..Len(table) : table[j].class = det.class_name}}
    IN IF ds = {} THEN -1 ELSE CHOOSE d \in ds : \A e \in ds : d <= e

\* The loop over the detections: the table after the last detection, and per
\* detection the id it was annotated with, whether a track was created for it,
\* the squared distance to the previous center of the track it was matched to
\* (matched) or to the nearest live track of its class (created), and the
\* greatest id issued before it.
RECURSIVE Associate(_, _, _, _, _, _)
Associate(table, dets, i, now, acc, issued) ==
    IF i > Len(dets) THEN [table |-> table, annot |-> acc, issued |-> issued]
    ELSE LET r == ProcessDetection(table, dets[i], now)
             d2 == IF r.isNew THEN NearestDist2(table, dets[i])
                   ELSE Dist2(dets[i].center, TrackOf(table, r.track_id).last_center)
         IN Associate(r.table, dets, i + 1, now,
                      Append(acc, [track_id |-> r.track_id, isNew |-> r.isNew,
                                   d2 |-> d2, issued |-> issued]),
                      IF r.isNew THEN Max(issued, r.track_id) ELSE issued)

TrackerInit ==
    /\ tracked_objects = <<>>
    /\ current_time = 0
    /\ annot = <<>>
    /\ evicted = {}
    /\ maxIssued = 0

\* AIDetector._update_tracking(detections), reading the clock once.
UpdateTracking ==
    \E dets \in DetLists, dt \in ClockSteps :
        /\ current_time + dt <= MaxTime
        /\ \E r \in {Associate(tracked_objects, dets, 1, current_time + dt, <<>>, maxIssued)} :
            \E kept \in {Evict(r.table, current_time + dt)} :
              /\ current_time' = current_time + dt
              /\ annot' = r.annot
              /\ maxIssued' = r.issued
              /\ tracked_objects' = kept
              /\ evicted' = TrackIds(r.table) \ TrackIds(kept)
              /\ UNCHANGED notTrackerVars

(***************************************************************************)
(* AlertManager                                                            *)
(***************************************************************************)
Producers == {1, 2}
Resolvers == {1, 2}
AlertTypes == {"suspicious_activity"}
Severities == {"medium"}
None == -1
NoAlert == 0
\* An id no trigger_alert call has returned.
UnknownId == <<"unknown", 0, 0>>

\* f"{alert_type}_{int(time.time())}_{self.alert_counter}"
MakeAlertId(type, seconds, counter) == <<type, seconds, counter>>

\* Alert(alert_id=..., alert_type=..., severity=..., timestamp=datetime.now(), ...)
\* with the dataclass defaults resolved=False, resolution_time=None.
MakeAlert(id, type, severity, now) ==
    [alert_id |-> id, alert_type |-> type, severity |-> severity, timestamp |-> now,
     resolved |-> FALSE, resolution_time |-> None]

\* A dict with one key set (a new key, or an existing one replaced).
DictSet(d, k, v) == [x \in DOMAIN d \cup {k} |-> IF x = k THEN v ELSE d[x]]

\* del d[k]
DictDel(d, k) == [x \in DOMAIN d \ {k} |-> d[x]]

EmptyDict == [x \in {} |-> NoAlert]

\* A variant of QueueHead that takes the newest element (a LIFO queue).
QueueHeadLifo(q) == Len(q)

\* queue.Queue.get takes the element at the head: the index it removes.
QueueHead(q) == 1

RemoveAt(q, k) == [i \in 1..(Len(q) - 1) |-> IF i < k THEN q[i] ELSE q[i + 1]]

\* A variant of HistoryAppend that caps the history at one entry, dropping the
\* oldest.
HistoryAppendBounded(h, o) == IF h = <<>> THEN <<o>> ELSE Append(Tail(h), o)

\* self.alert_history.append(alert)
HistoryAppend(h, o) == Append(h, o)

\* A variant of WorkerOnEmpty that leaves the loop when the queue is empty.
WorkerOnEmptyExit == "exited"

\* except queue.Empty: continue
WorkerOnEmpty == "w_check"

\* alert.resolved = True
SetResolved(hp, o) == [hp EXCEPT ![o].resolved = TRUE]

\* alert.resolution_time = datetime.now()
SetResolutionTime(hp, o, now) == [hp EXCEPT ![o].resolution_time = now]

\* resolve_alert(alert_id) run from its first statement to its last with no other
\* thread in between, on the active map and the heap of st.
ResolveAlert(st, id, now) ==
    IF id \in DOMAIN st.active
    THEN LET o == st.active[id]
         IN [active |-> DictDel(st.active, id),
             heap |-> SetResolutionTime(SetResolved(st.heap, o), o, now)]
    ELSE st

AlertInit ==
    /\ clock = 0
    /\ heap = <<>>
    /\ alert_counter = 0
    /\ alert_queue = <<>>
    /\ active_alerts = EmptyDict
    /\ alert_history = <<>>
    /\ is_running = TRUE          \* start_processing() has run in __init__
    /\ ppc = [p \in Producers |-> "idle"]
    /\ p_tmp = [p \in Producers |-> 0]
    /\ p_obj = [p \in Producers |-> NoAlert]
    /\ rpc = [r \in Resolvers |-> "idle"]
    /\ r_id = [r \in Resolvers |-> UnknownId]
    /\ r_alert = [r \in Resolvers |-> NoAlert]
    /\ wpc = "w_check"
    /\ w_alert = NoAlert
    /\ cpc = "idle"
    /\ enqueued = <<>>

(***************************************************************************)
(* The sinks of an alert: configuration and registry                       *)
(***************************************************************************)
SoundTypes == {"detection", "alert", "emergency"}

\* The dispatch record before any alert was handled.
NoDispatch == [severity |-> "", alert_type |-> <<>>, visual |-> "skipped",
               audio |-> "skipped", sound_type |-> "", plays |-> 0,
               log |-> "skipped", registered |-> 0,
               callbacks |-> <<>>]

\* Lines 56-82: the switches come from the configuration (enabled by default),
\* the sounds from initialize_audio, the callback list is empty.
SinkConfig(visual, audio, logging, sounds) ==
    /\ visual_enabled = visual
    /\ audio_enabled = audio
    /\ logging_enabled = logging
    /\ loaded_sounds = sounds
    /\ alert_callbacks = <<>>
    /\ handled = 0
    /\ worker_alive = TRUE
    /\ dispatch = NoDispatch

\* The default configuration: every sink enabled, the three default sounds.
SinkInit == SinkConfig(TRUE, TRUE, TRUE, SoundTypes)

(***************************************************************************)
(* The read accessors: no call made yet                                    *)
(***************************************************************************)
NoHistoryCall == [limit |-> None, result |-> <<>>]

NoStatsCall == [now |-> None, total_alerts |-> 0, recent_alerts |-> 0]

QueryInit ==
    /\ history_result = NoHistoryCall
    /\ stats_result = NoStatsCall

(***************************************************************************)
(* CameraManager: the state before initialize_camera                       *)
(***************************************************************************)
\* The threads start_capture can create.
Loops == {1, 2}

NoLoop == 0

\* A frame is an array (buf, its identity) holding an image (img).  No statement
\* of the program writes into an array it has created.
NoFrame == [buf |-> <<"none", 0>>, img |-> 0]

NoGet == [called |-> FALSE, result |-> NoFrame, stored |-> NoFrame,
          registered |-> FALSE]

\* Lines 37-44.
CamInit ==
    /\ cam_registered = FALSE
    /\ cap = "none"
    /\ cam_is_running = FALSE
    /\ capture_threads = NoLoop
    /\ current_frames = NoFrame
    /\ frame_queue = <<>>
    /\ images = 0
    /\ lpc = [t \in Loops |-> "unborn"]
    /\ l_frame = [t \in Loops |-> NoFrame]
    /\ kpc = "new"
    /\ last_op = "none"
    /\ gets = 0
    /\ last_get = NoGet
    /\ returned = {}
    /\ last_stored = NoFrame

(***************************************************************************)
(* AIDetector: the configuration, and no frame processed yet               *)
(***************************************************************************)
\* config.get('classes_of_interest', ['person', 'car']), line 75.
DefaultClassesOfInterest == {"person", "car"}

NoTick == [called |-> FALSE, failed |-> FALSE, detections |-> <<>>,
           activities |-> <<>>, raised |-> FALSE]

NoFilterResult == [called |-> FALSE, result |-> <<>>]

NoMatchedTicks == [id \in {} |-> 0]

DetConfig(allow_list, input) ==
    /\ classes_of_interest = allow_list
    /\ tick = NoTick
    /\ filter_input = input
    /\ filter_result = NoFilterResult
    /\ matched_ticks = NoMatchedTicks

DetInit == DetConfig(DefaultClassesOfInterest, <<>>)

(***************************************************************************)
(* Dashboard: no surveillance started, both buttons as they are created    *)
(***************************************************************************)
\* The threads start_surveillance can create.
Updaters == {1, 2}

\* Lines 499-501, and the two CTkButton(...) of the control panel, created in
\* their default state.
DashInit ==
    /\ running = FALSE
    /\ is_surveillance_active = FALSE
    /\ update_thread = NoLoop
    /\ upc = [t \in Updaters |-> "unborn"]
    /\ start_button = "normal"
    /\ stop_button = "normal"

Init ==
    TrackerInit /\ AlertInit /\ SinkInit /\ QueryInit /\ CamInit /\ DetInit /\ DashInit

\* What a read of the wall clock can return: the clock never runs backwards.
ClockReadings == clock..MaxClock

\* The threads that call an operation are interchangeable (a call keeps nothing
\* in its thread between calls): a new call is attributed to the first idle
\* caller thread.
FirstIdle(pcs, t) == pcs[t] = "idle" /\ \A u \in DOMAIN pcs : u < t => pcs[u] # "idle"

(***************************************************************************)
(* trigger_alert, statement by statement.  self.alert_counter += 1 is a    *)
(* read followed by a write of the attribute.                              *)
(***************************************************************************)
TriggerLoad(p) ==
    /\ FirstIdle(ppc, p)
    /\ Len(heap) + Cardinality({q \in Producers : ppc[q] \in {"t_store", "t_build"}})
          < MaxAlerts
    /\ p_tmp' = [p_tmp EXCEPT ![p] = alert_counter]
    /\ ppc' = [ppc EXCEPT ![p] = "t_store"]
    /\ UNCHANGED notAlertVars
    /\ UNCHANGED <<clock, heap, alert_counter, alert_queue, active_alerts,
                   alert_history, is_running, p_obj, rpc, r_id, r_alert, wpc,
                   w_alert, cpc, enqueued>>

TriggerStore(p) ==
    /\ ppc[p] = "t_store"
    /\ alert_counter' = p_tmp[p] + 1
    /\ p_tmp' = [p_tmp EXCEPT ![p] = 0]
    /\ ppc' = [ppc EXCEPT ![p] = "t_build"]
    /\ UNCHANGED notAlertVars
    /\ UNCHANGED <<clock, heap, alert_queue, active_alerts, alert_history,
                   is_running, p_obj, rpc, r_id, r_alert, wpc, w_alert, cpc,
                   enqueued>>

\* Lines 387-398: the id is built from the counter as it is now, and the Alert
\* object is created.
TriggerBuild(p) ==
    /\ ppc[p] = "t_build"
    /\ \E type \in AlertTypes, sev \in Severities, now \in ClockReadings :
          /\ clock' = now
          /\ heap' = Append(heap, MakeAlert(MakeAlertId(type, now, alert_counter),
                                            type, sev, now))
    /\ p_obj' = [p_obj EXCEPT ![p] = Len(heap) + 1]
    /\ ppc' = [ppc EXCEPT ![p] = "t_put"]
    /\ UNCHANGED notAlertVars
    /\ UNCHANGED <<alert_counter, alert_queue, active_alerts, alert_history,
                   is_running, p_tmp, rpc, r_id, r_alert, wpc, w_alert, cpc,
                   enqueued>>

\* self.alert_queue.put(alert); return alert_id
TriggerPut(p) ==
    /\ ppc[p] = "t_put"
    /\ alert_queue' = Append(alert_queue, p_obj[p])
    /\ enqueued' = Append(enqueued, p_obj[p])
    /\ ppc' = [ppc EXCEPT ![p] = "idle"]
    /\ p_obj' = [p_obj EXCEPT ![p] = NoAlert]
    /\ UNCHANGED notAlertVars
    /\ UNCHANGED <<clock, heap, alert_counter, active_alerts, alert_history,
                   is_running, p_tmp, rpc, r_id, r_alert, wpc, w_alert, cpc>>

(***************************************************************************)
(* resolve_alert, statement by statement.  The membership test and the     *)
(* lookup that follows it are one step: a key that disappears between them *)
(* raises KeyError, which the handler swallows, as if the test had failed. *)
(***************************************************************************)
ResolveIds == {heap[enqueued[i]].alert_id : i \in 1..Len(enqueued)} \cup {UnknownId}

ResolveLookup(r) ==
    /\ FirstIdle(rpc, r)
    /\ \E id \in ResolveIds :
          IF id \in DOMAIN active_alerts
          THEN /\ r_id' = [r_id EXCEPT ![r] = id]
               /\ r_alert' = [r_alert EXCEPT ![r] = active_alerts[id]]
               /\ rpc' = [rpc EXCEPT ![r] = "r_resolved"]
          ELSE UNCHANGED <<rpc, r_id, r_alert>>
    /\ UNCHANGED notAlertVars
    /\ UNCHANGED <<clock, heap, alert_counter, alert_queue, active_alerts,
                   alert_history, is_running, ppc, p_tmp, p_obj, wpc, w_alert, cpc,
                   enqueued>>

ResolveSetResolved(r) ==
    /\ rpc[r] = "r_resolved"
    /\ heap' = SetResolved(heap, r_alert[r])
    /\ rpc' = [rpc EXCEPT ![r] = "r_time"]
    /\ UNCHANGED notAlertVars
    /\ UNCHANGED <<clock, alert_counter, alert_queue, active_alerts, alert_history,
                   is_running, ppc, p_tmp, p_obj, r_id, r_alert, wpc, w_alert, cpc,
                   enqueued>>

ResolveSetTime(r) ==
    /\ rpc[r] = "r_time"
    /\ \E now \in ClockReadings :
          /\ clock' = now
          /\ heap' = SetResolutionTime(heap, r_alert[r], now)
    /\ rpc' = [rpc EXCEPT ![r] = "r_del"]
    /\ UNCHANGED notAlertVars
    /\ UNCHANGED <<alert_counter, alert_queue, active_alerts, alert_history,
                   is_running, ppc, p_tmp, p_obj, r_id, r_alert, wpc, w_alert, cpc,
                   enqueued>>

\* del self.active_alerts[alert_id]: KeyError when the key is gone, swallowed.
ResolveDel(r) ==
    /\ rpc[r] = "r_del"
    /\ active_alerts' = IF r_id[r] \in DOMAIN active_alerts
                        THEN DictDel(active_alerts, r_id[r])
                        ELSE active_alerts
    /\ rpc' = [rpc EXCEPT ![r] = "idle"]
    /\ r_id' = [r_id EXCEPT ![r] = UnknownId]
    /\ r_alert' = [r_alert EXCEPT ![r] = NoAlert]
    /\ UNCHANGED notAlertVars
    /\ UNCHANGED <<clock, heap, alert_counter, alert_queue, alert_history,
                   is_running, ppc, p_tmp, p_obj, wpc, w_alert, cpc, enqueued>>

(***************************************************************************)
(* _process_alerts and _handle_alert: the dispatch worker.                 *)
(***************************************************************************)
\* while self.is_running
WorkerCheck ==
    /\ wpc = "w_check"
    /\ wpc' = IF is_running THEN "w_get" ELSE "exited"
    /\ UNCHANGED notAlertVars
    /\ UNCHANGED <<clock, heap, alert_counter, alert_queue, active_alerts,
                   alert_history, is_running, ppc, p_tmp, p_obj, rpc, r_id, r_alert,
                   w_alert, cpc, enqueued>>

\* alert = self.alert_queue.get(timeout=1.0): an alert, or queue.Empty when none
\* came within the timeout.
WorkerGet ==
    /\ wpc = "w_get"
    /\ IF alert_queue # <<>>
       THEN /\ w_alert' = alert_queue[QueueHead(alert_queue)]
            /\ alert_queue' = RemoveAt(alert_queue, QueueHead(alert_queue))
            /\ wpc' = "h_active"
       ELSE /\ wpc' = WorkerOnEmpty
            /\ UNCHANGED <<w_alert, alert_queue>>
    /\ UNCHANGED notAlertVars
    /\ UNCHANGED <<clock, heap, alert_counter, active_alerts, alert_history,
                   is_running, ppc, p_tmp, p_obj, rpc, r_id, r_alert, cpc, enqueued>>

\* self.active_alerts[alert.alert_id] = alert
HandleActive ==
    /\ wpc = "h_active"
    /\ active_alerts' = DictSet(active_alerts, heap[w_alert].alert_id, w_alert)
    /\ wpc' = "h_history"
    /\ UNCHANGED notAlertVars
    /\ UNCHANGED <<clock, heap, alert_counter, alert_queue, alert_history,
                   is_running, ppc, p_tmp, p_obj, rpc, r_id, r_alert, w_alert, cpc,
                   enqueued>>

\* self.alert_history.append(alert)
HandleHistory ==
    /\ wpc = "h_history"
    /\ alert_history' = HistoryAppend(alert_history, w_alert)
    /\ wpc' = "h_sinks"
    /\ UNCHANGED notAlertVars
    /\ UNCHANGED <<clock, heap, alert_counter, alert_queue, active_alerts,
                   is_running, ppc, p_tmp, p_obj, rpc, r_id, r_alert, w_alert, cpc,
                   enqueued>>

\* The sinks (visual, audio, log, callbacks), then task_done().
HandleSinks ==
    /\ wpc = "h_sinks"
    /\ w_alert' = NoAlert
    /\ wpc' = "w_check"
    /\ UNCHANGED notAlertVars
    /\ UNCHANGED <<clock, heap, alert_counter, alert_queue, active_alerts,
                   alert_history, is_running, ppc, p_tmp, p_obj, rpc, r_id, r_alert,
                   cpc, enqueued>>

Worker == WorkerCheck \/ WorkerGet \/ HandleActive \/ HandleHistory \/ HandleSinks

(***************************************************************************)
(* cleanup                                                                 *)
(***************************************************************************)
\* self.is_running = False
CleanupStop ==
    /\ cpc = "idle"
    /\ is_running' = FALSE
    /\ cpc' = "c_join"
    /\ UNCHANGED notAlertVars
    /\ UNCHANGED <<clock, heap, alert_counter, alert_queue, active_alerts,
                   alert_history, ppc, p_tmp, p_obj, rpc, r_id, r_alert, wpc,
                   w_alert, enqueued>>

\* self.processing_thread.join(timeout=2.0) returns when the worker has exited
\* or when the timeout has elapsed, whichever comes first: it holds the caller
\* back for a while and guarantees nothing.  Then self.active_alerts.clear().
CleanupJoinClear ==
    /\ cpc = "c_join"
    /\ active_alerts' = EmptyDict
    /\ cpc' = "done"
    /\ UNCHANGED notAlertVars
    /\ UNCHANGED <<clock, heap, alert_counter, alert_queue, alert_history,
                   is_running, ppc, p_tmp, p_obj, rpc, r_id, r_alert, wpc, w_alert,
                   enqueued>>

Cleanup == CleanupStop \/ CleanupJoinClear

Next ==
    \/ \E p \in Producers :
          TriggerLoad(p) \/ TriggerStore(p) \/ TriggerBuild(p) \/ TriggerPut(p)
    \/ \E r \in Resolvers :
          ResolveLookup(r) \/ ResolveSetResolved(r) \/ ResolveSetTime(r) \/ ResolveDel(r)
    \/ Worker
    \/ Cleanup

\* The alert manager with its threads.
Spec == Init /\ [][Next]_vars

\* The worker thread is scheduled as long as it has a step to take.
FairSpec == Spec /\ WF_vars(Worker)

\* The path of an alert from trigger_alert to the history: producers, the
\* worker and cleanup.  resolve_alert writes none of alert_queue, alert_history,
\* is_running and the worker's position, which is all this path reads.
DispatchNext ==
    \/ \E p \in Producers :
          TriggerLoad(p) \/ TriggerStore(p) \/ TriggerBuild(p) \/ TriggerPut(p)
    \/ Worker
    \/ Cleanup

DispatchSpec == Init /\ [][DispatchNext]_vars

FairDispatchSpec == DispatchSpec /\ WF_vars(Worker)

\* The alert manager with its resolve_alert calls made one after the other: the
\* producers, one resolver, the worker and cleanup.
SerialResolveNext ==
    \/ \E p \in Producers :
          TriggerLoad(p) \/ TriggerStore(p) \/ TriggerBuild(p) \/ TriggerPut(p)
    \/ \E r \in {1} :
          ResolveLookup(r) \/ ResolveSetResolved(r) \/ ResolveSetTime(r) \/ ResolveDel(r)
    \/ Worker
    \/ Cleanup

SerialResolveSpec == Init /\ [][SerialResolveNext]_vars

(***************************************************************************)
(* Alert manager properties                                                *)
(***************************************************************************)
Objects == 1..Len(heap)

Enqueued(o) == \E i \in 1..Len(enqueued) : enqueued[i] = o

InHistory(o) == \E i \in 1..Len(alert_history) : alert_history[i] = o

AllObjects == 1..(MaxAlerts + 1)

\* C4: an alert that trigger_alert has put on the queue while the dispatcher is
\* running is eventually in the history (its id is the one trigger_alert
\* returned), unless cleanup stops the dispatcher first.
C4_TriggeredReachesHistory ==
    \A o \in AllObjects :
        (o \in Objects /\ Enqueued(o) /\ is_running) ~> (InHistory(o) \/ ~is_running)

\* An alert is in the history, the last one enqueued is the last one of the
\* history, and cleanup has not been called.
C4_Witness ==
    /\ cpc = "idle" /\ is_running
    /\ Len(enqueued) = MaxAlerts
    /\ Len(alert_history) = MaxAlerts
    /\ alert_history[Len(alert_history)] = enqueued[Len(enqueued)]

\* C5: no triggered alert is dropped, whatever the interleaving with cleanup:
\* every alert put on the queue is taken by the worker and added to the
\* history.  Stated on the states where the worker has left its loop for good:
\* nothing it would still have to take is left on the queue.
C5_NoAlertDropped == wpc = "exited" => alert_queue = <<>>

\* C6: the history lists the alerts in the order in which they were put on the
\* queue.
C6_HistoryInEnqueueOrder ==
    /\ Len(alert_history) <= Len(enqueued)
    /\ alert_history = SubSeq(enqueued, 1, Len(alert_history))

\* Two producers ran concurrently: the alert created second was put first, and
\* both are in the history.
C6_Witness ==
    /\ Len(alert_history) >= 2
    /\ alert_history[1] > alert_history[2]

\* C7: any two trigger_alert calls return different ids.
C7_AlertIdsUnique ==
    \A i, j \in 1..Len(enqueued) :
        i # j => heap[enqueued[i]].alert_id # heap[enqueued[j]].alert_id

\* C8: with no resolve in progress, resolve_alert(id) on an id that is unknown
\* or already resolved (an alert of the history with that id has resolved = true)
\* changes neither the active map nor any alert, and a second resolve_alert(id)
\* right after a first one leaves the active map and every alert (resolved flag
\* and resolution time included) as the first one left them.
C8_ResolveIdempotent ==
    (\A r \in Resolvers : rpc[r] = "idle") =>
        \A id \in ResolveIds, t1 \in clock..MaxClock :
            LET st == [active |-> active_alerts, heap |-> heap]
                s1 == ResolveAlert(st, id, t1)
                AlreadyResolved ==
                    \E o \in Objects :
                        InHistory(o) /\ heap[o].alert_id = id /\ heap[o].resolved
            IN /\ (id = UnknownId \/ AlreadyResolved) => s1 = st
               /\ \A t2 \in t1..MaxClock : ResolveAlert(s1, id, t2) = s1

\* The part of C8 that the code keeps: an id that is not a key of the active map
\* is a no-op, and two calls in a row are as one.
ResolveTwiceAsOnce ==
    (\A r \in Resolvers : rpc[r] = "idle") =>
        \A id \in ResolveIds, t1 \in clock..MaxClock :
            LET st == [active |-> active_alerts, heap |-> heap]
                s1 == ResolveAlert(st, id, t1)
            IN /\ id \notin DOMAIN active_alerts => s1 = st
               /\ \A t2 \in t1..MaxClock : ResolveAlert(s1, id, t2) = s1

\* C9: for every alert in the history, resolved never goes back to false, a
\* resolution time once set never changes, and no other field ever changes.
C9_ResolvedAtMostOnce ==
    [][\A k \in 1..Len(alert_history) :
          LET o == alert_history[k]
          IN /\ heap'[o].alert_id = heap[o].alert_id
             /\ heap'[o].alert_type = heap[o].alert_type
             /\ heap'[o].severity = heap[o].severity
             /\ heap'[o].timestamp = heap[o].timestamp
             /\ heap[o].resolved => heap'[o].resolved
             /\ heap[o].resolution_time # None =>
                    heap'[o].resolution_time = heap[o].resolution_time]_vars

\* C10: the history only grows at its end: every entry stays, at its position.
C10_HistoryAppendOnly ==
    [][/\ Len(alert_history) <= Len(alert_history')
       /\ SubSeq(alert_history', 1, Len(alert_history)) = alert_history]_vars

\* cleanup has returned, and the history still holds every alert dispatched,
\* a resolved one first.
C10_Witness ==
    /\ cpc = "done"
    /\ Len(alert_history) = MaxAlerts
    /\ heap[alert_history[1]].resolved

\* C11: an alert stays in the active set until it is resolved: every alert of
\* the history that has resolved = false is a value of the active-alert map,
\* under its id, in every state, the states after cleanup included.
C11_ActiveUntilResolved ==
    \A k \in 1..Len(alert_history) :
        LET o == alert_history[k]
        IN ~heap[o].resolved => heap[o].alert_id \in DOMAIN active_alerts

\* C34: the active-alert map and the history are written by the dispatch
\* worker only: every step that changes one of them is a step of the worker
\* (lines 241 and 244), none is a step of trigger_alert, resolve_alert, cleanup
\* or an accessor.
C34_OnlyWorkerMutates ==
    [][(active_alerts' # active_alerts \/ alert_history' # alert_history)
          => (wpc \in {"h_active", "h_history"} /\ wpc' # wpc)]_vars

\* C38: resolve_alert(id) called while the alert with that id is still on the
\* queue changes nothing; the worker then puts the alert in the active map,
\* unresolved; and an alert of the active map stays there, under its id, until a
\* resolve_alert call for that id removes it.
C38_EarlyResolveIsLost ==
    [][/\ \A r \in Resolvers :
             (rpc[r] = "idle" /\ rpc'[r] # "idle") =>
                 \A k \in 1..Len(alert_queue) :
                     heap[alert_queue[k]].alert_id # r_id'[r]
       /\ (wpc = "h_active" /\ wpc' = "h_history") =>
             /\ ~heap[w_alert].resolved
             /\ active_alerts'[heap[w_alert].alert_id] = w_alert
       /\ \A id \in DOMAIN active_alerts :
             \/ id \in DOMAIN active_alerts' /\ active_alerts'[id] = active_alerts[id]
             \/ \E r \in Resolvers :
                   rpc[r] = "r_del" /\ r_id[r] = id /\ rpc'[r] = "idle"]_vars

\* C39: in every state reached with the statements of the worker and of
\* resolve_alert interleaved, every alert of the active map (which is what
\* get_active_alerts copies, line 436) has resolved = false, and unless the
\* worker is between its two bookkeeping statements every alert of the active
\* map is in the history.
C39_ActiveAreUnresolved ==
    /\ \A id \in DOMAIN active_alerts : ~heap[active_alerts[id]].resolved
    /\ wpc # "h_history" =>
          \A id \in DOMAIN active_alerts : InHistory(active_alerts[id])

(***************************************************************************)
(* _handle_alert, lines 246-261: the sinks of one alert                    *)
(***************************************************************************)
SinkSeverities == {"low", "medium", "high", "critical", "info"}

\* An alert type, lower-cased, as the list of its words: 'w' in alert_type.lower()
\* is the membership of w in the list.
SinkAlertTypes == {<<"detection">>, <<"suspicious", "activity">>, <<"emergency", "stop">>}

SoundConfigs == {SoundTypes, {"detection"}}

SinkNames == {"visual", "audio", "log"}

InType(word, alert_type) == \E i \in 1..Len(alert_type) : alert_type[i] = word

\* Lines 302-311.
SoundType(severity, alert_type) ==
    IF severity \in {"high", "critical"} THEN "emergency"
    ELSE IF severity = "medium" THEN "alert"
    ELSE IF InType("emergency", alert_type) THEN "emergency"
    ELSE IF InType("suspicious", alert_type) THEN "alert"
    ELSE "detection"

RepetitionsOnce(severity) == 1

\* Lines 318-322.
Repetitions(severity) ==
    IF severity = "critical" THEN 3
    ELSE IF severity = "high" THEN 2
    ELSE 1

\* Lines 324-330: play_sound calls sound.play() once per repetition.
PlaySound(repetitions) == repetitions

ExceptNothing(raised) == raised

\* except Exception as e: self.logger.error(...): the exception raised in the
\* try block ends there.
ExceptException(raised) == FALSE

\* One sink called from _handle_alert: not reached when an exception has left a
\* sink before it, skipped when its switch is off, and otherwise its body runs
\* inside the sink's own try block.
CallSink(reached, enabled, fails) ==
    IF ~reached THEN [status |-> "not_reached", raised |-> FALSE]
    ELSE IF ~enabled THEN [status |-> "skipped", raised |-> FALSE]
    ELSE IF fails THEN [status |-> "failed", raised |-> ExceptException(TRUE)]
    ELSE [status |-> "ok", raised |-> FALSE]

\* _notify_callbacks, lines 357-361: the callbacks in list order, each in its
\* own try block.  The result lists the status of every callback and tells
\* whether an exception has left the loop.
RECURSIVE NotifyCallbacks(_, _, _, _, _)
NotifyCallbacks(callbacks, i, failing, reached, acc) ==
    IF i > Len(callbacks) THEN [statuses |-> acc, raised |-> ~reached]
    ELSE LET c == CallSink(reached, TRUE, callbacks[i] \in failing)
         IN NotifyCallbacks(callbacks, i + 1, failing, reached /\ ~c.raised,
                            Append(acc, c.status))

\* _trigger_audio_alert, lines 300-335: the sound and the number of times it is
\* played, none when the sound type is not loaded.
TriggerAudioAlert(severity, alert_type, sounds) ==
    LET sound_type == SoundType(severity, alert_type)
    IN [sound_type |-> sound_type,
        plays |-> IF sound_type \in sounds THEN PlaySound(Repetitions(severity))
                  ELSE 0]

\* The sinks of _handle_alert for one alert, in the order of the code.
HandleSinksOf(severity, alert_type, failing, failing_callbacks) ==
    LET v == CallSink(TRUE, visual_enabled, "visual" \in failing)
        a == CallSink(~v.raised, audio_enabled, "audio" \in failing)
        l == CallSink(~v.raised /\ ~a.raised, logging_enabled, "log" \in failing)
        n == NotifyCallbacks(alert_callbacks, 1, failing_callbacks,
                             ~v.raised /\ ~a.raised /\ ~l.raised, <<>>)
        snd == TriggerAudioAlert(severity, alert_type, loaded_sounds)
    IN [record |-> [severity |-> severity, alert_type |-> alert_type,
                    visual |-> v.status, audio |-> a.status,
                    sound_type |-> IF a.status = "ok" THEN snd.sound_type ELSE "",
                    plays |-> IF a.status = "ok" THEN snd.plays ELSE 0,
                    log |-> l.status, registered |-> Len(alert_callbacks),
                    callbacks |-> n.statuses],
        raised |-> n.raised]

\* The sinks that fail for an alert: none, one of them, or all of them; and the
\* same for the registered callbacks.
FailingSinks == {{}} \cup {{f} : f \in SinkNames} \cup {SinkNames}

FailingCallbacks ==
    {{}} \cup {{c} : c \in 1..Len(alert_callbacks)} \cup {1..Len(alert_callbacks)}

\* The worker has taken an alert from the queue (line 224) and is about to
\* run _handle_alert for it.
Pending(severity, alert_type) ==
    [NoDispatch EXCEPT !.severity = severity, !.alert_type = alert_type,
                       !.visual = "pending", !.audio = "pending", !.log = "pending"]

IsPending == dispatch.visual = "pending"

TakeAlert ==
    /\ worker_alive
    /\ ~IsPending
    /\ handled < MaxHandled
    /\ \E severity \in SinkSeverities, alert_type \in SinkAlertTypes :
          dispatch' = Pending(severity, alert_type)
    /\ UNCHANGED <<visual_enabled, audio_enabled, logging_enabled, loaded_sounds,
                   alert_callbacks, handled, worker_alive>>
    /\ UNCHANGED notSinkVars

\* The worker runs _handle_alert for the alert it took: what leaves the sinks
\* is caught at line 263, and what would leave _handle_alert at line 234.
HandleAlertSinks ==
    /\ IsPending
    /\ \E failing \in FailingSinks, failing_callbacks \in FailingCallbacks :
          \E r \in {HandleSinksOf(dispatch.severity, dispatch.alert_type, failing,
                                  failing_callbacks)} :
             /\ dispatch' = r.record
             /\ worker_alive' = ~ExceptException(r.raised)
    /\ handled' = handled + 1
    /\ UNCHANGED <<visual_enabled, audio_enabled, logging_enabled, loaded_sounds,
                   alert_callbacks>>
    /\ UNCHANGED notSinkVars

\* add_alert_callback(callback), line 515.
AddAlertCallback ==
    /\ Len(alert_callbacks) < MaxCallbacks
    /\ alert_callbacks' = Append(alert_callbacks, Len(alert_callbacks) + 1)
    /\ UNCHANGED <<visual_enabled, audio_enabled, logging_enabled, loaded_sounds,
                   handled, worker_alive, dispatch>>
    /\ UNCHANGED notSinkVars

\* toggle_audio(enabled), line 556.
ToggleAudio ==
    /\ \E enabled \in BOOLEAN : audio_enabled' = enabled
    /\ UNCHANGED <<visual_enabled, logging_enabled, loaded_sounds, alert_callbacks,
                   handled, worker_alive, dispatch>>
    /\ UNCHANGED notSinkVars

\* The configurations the constructor can leave: the sounds that could be loaded.
SinkSpecInit ==
    /\ TrackerInit
    /\ AlertInit
    /\ QueryInit
    /\ CamInit
    /\ DetInit
    /\ DashInit
    /\ \E sounds \in SoundConfigs : SinkConfig(TRUE, TRUE, TRUE, sounds)

SinkNext == TakeAlert \/ HandleAlertSinks \/ AddAlertCallback \/ ToggleAudio

SinkSpec == SinkSpecInit /\ [][SinkNext]_vars

(***************************************************************************)
(* Sink properties                                                         *)
(***************************************************************************)
Invoked(status) == status \in {"ok", "failed"}

\* C12: when a sink or a callback fails while an alert is dispatched, every
\* other enabled sink and every other registered callback is still invoked for
\* that alert, and the worker stays in its loop.
C12_SinkIsolation ==
    (handled > 0 /\ ~IsPending) =>
        /\ dispatch.visual # "not_reached"
        /\ dispatch.audio # "not_reached"
        /\ dispatch.log # "not_reached"
        /\ Len(dispatch.callbacks) = dispatch.registered
        /\ \A i \in 1..Len(dispatch.callbacks) : Invoked(dispatch.callbacks[i])
        /\ worker_alive

\* Two alerts were handled; for the last one the visual sink and the first
\* callback failed, and the audio sink, the log and the second callback ran.
C12_Witness ==
    /\ handled = MaxHandled
    /\ dispatch.visual = "failed"
    /\ dispatch.audio = "ok"
    /\ dispatch.log = "ok"
    /\ Len(dispatch.callbacks) >= 2
    /\ dispatch.callbacks[1] = "failed"
    /\ dispatch.callbacks[2] = "ok"

\* The audio sink has run for the last alert handled and its sound was loaded.
AudioPlayed ==
    /\ handled > 0
    /\ ~IsPending
    /\ dispatch.audio = "ok"
    /\ dispatch.sound_type \in loaded_sounds

\* C13: with audio enabled and the selected sound loaded, the sound is played
\* exactly 3 times for severity critical, exactly 2 times for high, and exactly
\* once for medium, low and any other severity.
C13_PlaybackCount ==
    AudioPlayed =>
        /\ dispatch.severity = "critical" => dispatch.plays = 3
        /\ dispatch.severity = "high" => dispatch.plays = 2
        /\ dispatch.severity \notin {"critical", "high"} => dispatch.plays = 1

\* A critical alert was handled and its sound played three times.
C13_Witness ==
    /\ AudioPlayed
    /\ dispatch.severity = "critical"
    /\ dispatch.plays = 3

\* C14: the sound selected is determined by the severity alone, for every
\* alert type: emergency for critical and high, alert for medium, detection
\* for low and any other severity.
C14_SoundBySeverity ==
    (handled > 0 /\ ~IsPending /\ dispatch.audio = "ok") =>
        /\ dispatch.severity \in {"critical", "high"} =>
               dispatch.sound_type = "emergency"
        /\ dispatch.severity = "medium" => dispatch.sound_type = "alert"
        /\ dispatch.severity \notin {"critical", "high", "medium"} =>
               dispatch.sound_type = "detection"

(***************************************************************************)
(* get_alert_history and get_alert_stats                                   *)
(***************************************************************************)
\* The creation times of the alerts of a history, and the clock readings of
\* get_alert_stats, in seconds.
StatTimes == {0, 3000, 86000}
StatNows == {86400, 88000, 90000}

\* seq[start:] as Python computes it: a negative start counts from the end, and
\* the start is clamped to the list.
PySliceFrom(seq, start) ==
    LET n == Len(seq)
        from == IF start < 0 THEN (IF n + start < 0 THEN 0 ELSE n + start)
                ELSE (IF start > n THEN n ELSE start)
    IN SubSeq(seq, from + 1, n)

\* Line 448: self.alert_history[-limit:] if self.alert_history else []
GetAlertHistory(history, limit) ==
    IF history # <<>> THEN PySliceFrom(history, 0 - limit) ELSE <<>>

\* timedelta.seconds: the seconds of the difference within its day; the days are
\* kept apart in timedelta.days.
TimedeltaSeconds(now, timestamp) == (now - timestamp) % SecondsPerDay

\* Lines 458-459: len([a for a in self.alert_history if
\*                     (datetime.now() - a.timestamp).seconds < 3600])
RecentAlerts(history, objects, now) ==
    Cardinality({k \in 1..Len(history) :
                    TimedeltaSeconds(now, objects[history[k]].timestamp) < RecentWindow})

\* An alert manager that has dispatched its alerts: they are in the history, in
\* the order of their creation, and active.
Histories ==
    UNION {[1..n -> StatTimes] : n \in 0..MaxAlerts}

QuerySpecInit ==
    /\ TrackerInit
    /\ SinkInit
    /\ QueryInit
    /\ CamInit
    /\ DetInit
    /\ DashInit
    /\ \E times \in Histories :
          /\ \A i, j \in 1..Len(times) : i <= j => times[i] <= times[j]
          /\ heap = [i \in 1..Len(times) |->
                        MakeAlert(MakeAlertId("suspicious_activity", times[i], i),
                                  "suspicious_activity", "medium", times[i])]
          /\ alert_history = [i \in 1..Len(times) |-> i]
          /\ enqueued = [i \in 1..Len(times) |-> i]
          /\ active_alerts =
                [id \in {MakeAlertId("suspicious_activity", times[i], i) :
                            i \in 1..Len(times)} |-> id[3]]
          /\ alert_counter = Len(times)
          /\ clock = IF times = <<>> THEN 0 ELSE times[Len(times)]
    /\ alert_queue = <<>>
    /\ is_running = TRUE
    /\ ppc = [p \in Producers |-> "idle"]
    /\ p_tmp = [p \in Producers |-> 0]
    /\ p_obj = [p \in Producers |-> NoAlert]
    /\ rpc = [r \in Resolvers |-> "idle"]
    /\ r_id = [r \in Resolvers |-> UnknownId]
    /\ r_alert = [r \in Resolvers |-> NoAlert]
    /\ wpc = "w_check"
    /\ w_alert = NoAlert
    /\ cpc = "idle"

\* get_alert_history(limit)
GetAlertHistoryCall ==
    /\ \E limit \in 0..MaxLimit :
          history_result' = [limit |-> limit,
                             result |-> GetAlertHistory(alert_history, limit)]
    /\ UNCHANGED stats_result
    /\ UNCHANGED notQueryVars

\* get_alert_stats(), reading the clock once.
GetAlertStatsCall ==
    /\ \E now \in StatNows :
          stats_result' = [now |-> now,
                           total_alerts |-> Len(alert_history),
                           recent_alerts |-> RecentAlerts(alert_history, heap, now)]
    /\ UNCHANGED history_result
    /\ UNCHANGED notQueryVars

QueryNext == GetAlertHistoryCall \/ GetAlertStatsCall

QuerySpec == QuerySpecInit /\ [][QueryNext]_vars

(***************************************************************************)
(* Accessor properties                                                     *)
(***************************************************************************)
\* C15: get_alert_history(limit) returns the most recent min(limit, len(history))
\* alerts, in history order, for every limit >= 0: the whole history at most,
\* and nothing for limit = 0.
C15_HistoryMostRecent ==
    history_result.limit # None =>
        LET n == Len(alert_history)
            m == Min(history_result.limit, n)
        IN history_result.result = SubSeq(alert_history, n - m + 1, n)

\* C16: the recent count of get_alert_stats is the number of alerts of the
\* history created less than one hour before the call, whatever their age.
C16_RecentCount ==
    stats_result.now # None =>
        stats_result.recent_alerts =
            Cardinality({k \in 1..Len(alert_history) :
                stats_result.now - heap[alert_history[k]].timestamp < RecentWindow})

(***************************************************************************)
(* CameraManager                                                           *)
(***************************************************************************)
\* frame.copy(): a new array, buf, holding the same image.
FrameAlias(frame, buf) == frame

FrameCopy(frame, buf) == [buf |-> buf, img |-> frame.img]

\* The array cap.read() returns for the n-th image of the device.
ReadFrame(n) == [buf |-> <<"read", n>>, img |-> n]

\* The frame of the test read of initialize_camera (line 89).
TestFrame == [buf |-> <<"test", 0>>, img |-> 0]

SlotAfterTestReadKeeps(frame) == frame

\* Lines 84-89: current_frames[camera_id] is None, and the frame of the test
\* read is used for the log message only.
SlotAfterTestRead(frame) == NoFrame

\* The loops that have been started and have not left their while loop.
LiveLoops == {t \in Loops : lpc[t] \notin {"unborn", "exited"}}

\* The next thread object threading.Thread(...) creates.
NewLoop == CHOOSE t \in Loops : lpc[t] = "unborn" /\ \A u \in Loops : u < t => lpc[u] # "unborn"

\* initialize_camera(camera_id), called by the constructor (line 47): the device
\* cannot be opened, or the test read fails, or the camera is ready.
InitializeCamera ==
    /\ kpc = "new"
    /\ \E outcome \in {"not_opened", "no_test_frame", "ok"} :
          /\ cam_registered' = (outcome # "not_opened")
          /\ cap' = CASE outcome = "not_opened" -> "none"
                      [] outcome = "no_test_frame" -> "released"
                      [] outcome = "ok" -> "open"
          /\ current_frames' = IF outcome = "ok" THEN SlotAfterTestRead(TestFrame)
                               ELSE NoFrame
          /\ last_op' = IF outcome = "ok" THEN "init_true" ELSE "init_false"
    /\ kpc' = "idle"
    /\ UNCHANGED <<cam_is_running, capture_threads, frame_queue, images, lpc,
                   l_frame, gets, last_get, returned, last_stored>>
    /\ UNCHANGED notCamVars

\* start_capture(), lines 112-141.  No other thread writes is_running between
\* its test (line 119) and its assignment (line 124).
StartCaptureCall ==
    /\ kpc = "idle"
    /\ IF ~cam_registered
       THEN /\ last_op' = "start_false"
            /\ UNCHANGED <<cam_is_running, lpc, capture_threads>>
       ELSE IF cam_is_running
       THEN /\ last_op' = "start_true"
            /\ UNCHANGED <<cam_is_running, lpc, capture_threads>>
       ELSE /\ \E t \in Loops : lpc[t] = "unborn"
            /\ \/ /\ cam_is_running' = TRUE
                  /\ lpc' = [lpc EXCEPT ![NewLoop] = "l_check"]
                  /\ capture_threads' = NewLoop
                  /\ last_op' = "start_true"
               \/ /\ cam_is_running' = FALSE      \* the thread could not be started
                  /\ last_op' = "start_false"
                  /\ UNCHANGED <<lpc, capture_threads>>
    /\ UNCHANGED <<cam_registered, cap, current_frames, frame_queue, images,
                   l_frame, kpc, gets, last_get, returned, last_stored>>
    /\ UNCHANGED besideCamVars

StartCapture == StartCaptureCall /\ UNCHANGED dashVars

\* stop_capture(), lines 246-250: self.is_running[camera_id] = False
StopCaptureCall ==
    /\ kpc = "idle"
    /\ IF cam_registered
       THEN /\ cam_is_running' = FALSE
            /\ IF capture_threads # NoLoop
               THEN kpc' = "st_join" /\ UNCHANGED last_op
               ELSE last_op' = "stop" /\ UNCHANGED kpc
       ELSE /\ last_op' = "stop"
            /\ UNCHANGED <<cam_is_running, kpc>>
    /\ UNCHANGED <<cam_registered, cap, capture_threads, current_frames,
                   frame_queue, images, lpc, l_frame, gets, last_get,
                   returned, last_stored>>
    /\ UNCHANGED besideCamVars

StopSet == StopCaptureCall /\ UNCHANGED dashVars

\* Lines 253-257: join(timeout=2.0) returns when the loop has exited or when the
\* timeout has elapsed, whichever comes first; then del capture_threads[...].
StopJoin ==
    /\ kpc = "st_join"
    /\ capture_threads' = NoLoop
    /\ last_op' = "stop"
    /\ kpc' = "idle"
    /\ UNCHANGED <<cam_registered, cap, cam_is_running, current_frames,
                   frame_queue, images, lpc, l_frame, gets, last_get,
                   returned, last_stored>>
    /\ UNCHANGED notCamVars

\* cleanup(), lines 364-365: stop_capture(camera_id) for the camera registered.
CamCleanupStop ==
    /\ kpc = "idle"
    /\ cam_is_running' = FALSE
    /\ kpc' = "c_join"
    /\ UNCHANGED <<cam_registered, cap, capture_threads, current_frames,
                   frame_queue, images, lpc, l_frame, last_op, gets,
                   last_get, returned, last_stored>>
    /\ UNCHANGED notCamVars

\* cleanup(), the join of stop_capture, then lines 366-374: the handle is
\* released and every dict is cleared.
CamCleanupRelease ==
    /\ kpc = "c_join"
    /\ cap' = IF cam_registered THEN "released" ELSE cap
    /\ cam_registered' = FALSE
    /\ capture_threads' = NoLoop
    /\ current_frames' = NoFrame
    /\ last_op' = "cleanup"
    /\ kpc' = "done"
    /\ UNCHANGED <<cam_is_running, frame_queue, images, lpc, l_frame, gets,
                   last_get, returned, last_stored>>
    /\ UNCHANGED notCamVars

\* _capture_frames: while self.is_running.get(camera_id, False)
LoopCheck(t) ==
    /\ lpc[t] = "l_check"
    /\ lpc' = [lpc EXCEPT ![t] = IF cam_registered /\ cam_is_running THEN "l_read"
                                 ELSE "exited"]
    /\ UNCHANGED <<cam_registered, cap, cam_is_running, capture_threads,
                   current_frames, frame_queue, images, l_frame, kpc,
                   last_op, gets, last_get, returned, last_stored>>
    /\ UNCHANGED notCamVars

\* ret, frame = cap.read(): a new image of an open device, or no image.
LoopRead(t) ==
    /\ lpc[t] = "l_read"
    /\ \/ /\ cap = "open"
          /\ images < MaxFrames
          /\ images' = images + 1
          /\ l_frame' = [l_frame EXCEPT ![t] = ReadFrame(images + 1)]
          /\ lpc' = [lpc EXCEPT ![t] = "l_store"]
       \/ /\ lpc' = [lpc EXCEPT ![t] = "l_check"]      \* not ret: sleep, continue
          /\ UNCHANGED <<images, l_frame>>
    /\ UNCHANGED <<cam_registered, cap, cam_is_running, capture_threads,
                   current_frames, frame_queue, kpc, last_op, gets, last_get,
                   returned, last_stored>>
    /\ UNCHANGED notCamVars

\* Lines 165-166, under the frame lock.  When cleanup has cleared the dicts the
\* lookup raises KeyError, which line 182 catches.
LoopStore(t) ==
    /\ lpc[t] = "l_store"
    /\ IF cam_registered
       THEN /\ current_frames' = FrameCopy(l_frame[t], <<"slot", l_frame[t].img>>)
            /\ last_stored' = FrameCopy(l_frame[t], <<"slot", l_frame[t].img>>)
            /\ lpc' = [lpc EXCEPT ![t] = "l_put"]
            /\ UNCHANGED l_frame
       ELSE /\ lpc' = [lpc EXCEPT ![t] = "l_check"]
            /\ l_frame' = [l_frame EXCEPT ![t] = NoFrame]
            /\ UNCHANGED <<current_frames, last_stored>>
    /\ UNCHANGED <<cam_registered, cap, cam_is_running, capture_threads,
                   frame_queue, images, kpc, last_op, gets, last_get,
                   returned>>
    /\ UNCHANGED notCamVars

\* frame_queue.put_nowait(frame), line 170.
LoopPut(t) ==
    /\ lpc[t] = "l_put"
    /\ IF Len(frame_queue) < FrameQueueSize
       THEN /\ frame_queue' = Append(frame_queue, l_frame[t])
            /\ l_frame' = [l_frame EXCEPT ![t] = NoFrame]
            /\ lpc' = [lpc EXCEPT ![t] = "l_check"]
       ELSE /\ lpc' = [lpc EXCEPT ![t] = "l_evict"]
            /\ UNCHANGED <<frame_queue, l_frame>>
    /\ UNCHANGED <<cam_registered, cap, cam_is_running, capture_threads,
                   current_frames, images, kpc, last_op, gets, last_get,
                   returned, last_stored>>
    /\ UNCHANGED notCamVars

\* except queue.Full: frame_queue.get_nowait(), line 174; queue.Empty is passed.
LoopEvict(t) ==
    /\ lpc[t] = "l_evict"
    /\ IF frame_queue # <<>>
       THEN /\ frame_queue' = Tail(frame_queue)
            /\ lpc' = [lpc EXCEPT ![t] = "l_put_again"]
            /\ UNCHANGED l_frame
       ELSE /\ lpc' = [lpc EXCEPT ![t] = "l_check"]
            /\ l_frame' = [l_frame EXCEPT ![t] = NoFrame]
            /\ UNCHANGED frame_queue
    /\ UNCHANGED <<cam_registered, cap, cam_is_running, capture_threads,
                   current_frames, images, kpc, last_op, gets, last_get,
                   returned, last_stored>>
    /\ UNCHANGED notCamVars

\* frame_queue.put_nowait(frame), line 175; queue.Full is caught at line 182.
LoopPutAgain(t) ==
    /\ lpc[t] = "l_put_again"
    /\ frame_queue' = IF Len(frame_queue) < FrameQueueSize
                      THEN Append(frame_queue, l_frame[t])
                      ELSE frame_queue
    /\ l_frame' = [l_frame EXCEPT ![t] = NoFrame]
    /\ lpc' = [lpc EXCEPT ![t] = "l_check"]
    /\ UNCHANGED <<cam_registered, cap, cam_is_running, capture_threads,
                   current_frames, images, kpc, last_op, gets, last_get,
                   returned, last_stored>>
    /\ UNCHANGED notCamVars

\* get_frame(), lines 198-212: under the frame lock, a copy of the slot or None.
GetFrameCall ==
    /\ \E result \in {IF cam_registered /\ current_frames # NoFrame
                      THEN FrameCopy(current_frames, <<"get", gets + 1>>)
                      ELSE NoFrame} :
          /\ result # NoFrame => gets < MaxGets
          /\ gets' = IF result # NoFrame THEN gets + 1 ELSE gets
          /\ returned' = IF result # NoFrame THEN returned \cup {result} ELSE returned
          /\ last_get' = [called |-> TRUE, result |-> result,
                          stored |-> last_stored, registered |-> cam_registered]
    /\ UNCHANGED <<cam_registered, cap, cam_is_running, capture_threads,
                   current_frames, frame_queue, images, lpc, l_frame, kpc,
                   last_op, last_stored>>
    /\ UNCHANGED besideCamVars

GetFrame == GetFrameCall /\ UNCHANGED dashVars

\* get_frame_from_queue(), lines 225-237: the frame at the head of the queue,
\* or None when none comes within the timeout.
GetFrameFromQueue ==
    /\ cam_registered
    /\ frame_queue # <<>>
    /\ frame_queue' = Tail(frame_queue)
    /\ UNCHANGED <<cam_registered, cap, cam_is_running, capture_threads,
                   current_frames, images, lpc, l_frame, kpc, last_op, gets,
                   last_get, returned, last_stored>>
    /\ UNCHANGED notCamVars

CameraNext ==
    \/ InitializeCamera
    \/ StartCapture
    \/ StopSet
    \/ StopJoin
    \/ CamCleanupStop
    \/ CamCleanupRelease
    \/ \E t \in Loops :
          \/ LoopCheck(t)
          \/ LoopRead(t)
          \/ LoopStore(t)
          \/ LoopPut(t)
          \/ LoopEvict(t)
          \/ LoopPutAgain(t)
    \/ GetFrame
    \/ GetFrameFromQueue

CameraSpec == Init /\ [][CameraNext]_vars

(***************************************************************************)
(* Camera properties                                                       *)
(***************************************************************************)
\* C17: at most one capture loop of the camera is live at any time, after any
\* sequence of start_capture and stop_capture calls.
C17_OneCaptureLoop == Cardinality(LiveLoops) <= 1

\* C18: get_frame returns None as long as no capture loop has stored a frame
\* (the test read of initialize_camera does not fill the slot), and once a loop
\* has stored one it returns a frame, holding the image stored last.
C18_LatestAfterCapture ==
    last_get.called =>
        /\ last_get.stored = NoFrame => last_get.result = NoFrame
        /\ (last_get.stored # NoFrame /\ last_get.registered) =>
              /\ last_get.result # NoFrame
              /\ last_get.result.img = last_get.stored.img

\* get_frame has returned a frame after a capture loop stored one.
C18_Witness ==
    /\ last_get.called
    /\ last_get.result # NoFrame
    /\ last_get.stored # NoFrame

\* The arrays the capture side holds: the slot, the queue, the loops' frames.
CaptureBufs ==
    {current_frames.buf} \cup {frame_queue[i].buf : i \in 1..Len(frame_queue)}
        \cup {l_frame[t].buf : t \in Loops}

\* C19: a frame returned by get_frame is an array of its own: it is none of the
\* arrays the capture loop writes to the slot, reads from the device or puts on
\* the queue, so no such write changes what the consumer holds.
C19_ReturnedFrameIndependent ==
    \A f \in returned : f.buf \notin CaptureBufs

\* A frame was returned, and a capture loop has since stored a later image in
\* the slot and put frames on the queue.
C19_Witness ==
    /\ frame_queue # <<>>
    /\ \E f \in returned : current_frames # NoFrame /\ current_frames.img > f.img

\* C20: when stop_capture returns, the device handle has been released.
C20_StopReleasesHandle ==
    (last_op = "stop" /\ cap # "none") => cap = "released"

\* C21: get_frame on a source that has been stopped (stop_capture has returned
\* and nothing was called since) returns None, also when frames were captured
\* before the stop.
C21_StoppedSourceNoFrame ==
    [][(last_op = "stop" /\ kpc = "idle" /\ last_get' # last_get) =>
          last_get'.result = NoFrame]_vars

\* C22: when stop_capture has returned, the capture loop has left its while
\* loop: no loop is live, none runs a further iteration.
C22_ShutdownObserved ==
    (last_op = "stop" /\ kpc = "idle") => LiveLoops = {}

\* C23: after initialize_camera has failed (the device not opened, or no test
\* frame), the next start_capture returns False and starts no capture loop.
C23_FailedOpenNotUsable ==
    [][(last_op = "init_false" /\ last_op' \in {"start_true", "start_false"}) =>
          (last_op' = "start_false" /\ lpc' = lpc /\ ~cam_is_running')]_vars

\* C35: when a capture loop ends an iteration in which it read a frame, that
\* frame is the newest of the queue; a frame the loop evicts is the oldest one;
\* and the queue never holds more than its capacity, whatever get_frame_from_queue
\* calls are made in between.
C35_NewestFrameQueued ==
    [][/\ Len(frame_queue') <= FrameQueueSize
       /\ \A t \in Loops :
             /\ (lpc[t] \in {"l_put", "l_evict", "l_put_again"} /\ lpc'[t] = "l_check")
                   => /\ frame_queue' # <<>>
                      /\ frame_queue'[Len(frame_queue')] = l_frame[t]
             /\ (lpc[t] = "l_evict" /\ lpc'[t] = "l_put_again")
                   => frame_queue' = Tail(frame_queue)]_vars

(***************************************************************************)
(* AIDetector._filter_detections                                           *)
(***************************************************************************)
\* The confidences are percentages: 0.5 is 50.
FilterClasses == {"person", "car", "motion"}
FilterConfidences == {40, 50, 80}

\* What the detection backends can hand to the filter.
FilterDetectionSet ==
    [class_name : FilterClasses, center : {<<0, 0>>}, confidence : FilterConfidences]

FilterInputs == UNION {[1..n -> FilterDetectionSet] : n \in 0..MaxRaw}

\* The allow-lists configured: none, or the default one.
AllowLists == {{}, DefaultClassesOfInterest}

\* A variant of BelowThreshold that also drops a confidence equal to the threshold.
BelowThresholdLe(confidence) == confidence <= ConfidenceThreshold

\* detection.confidence < self.confidence_threshold, line 373.
BelowThreshold(confidence) == confidence < ConfidenceThreshold

\* self.classes_of_interest and detection.class_name not in
\* self.classes_of_interest, line 377: an empty list is falsy.
NotOfInterest(class_name, allow_list) ==
    allow_list # {} /\ class_name \notin allow_list

\* sorted(..., key=lambda x: x.confidence, reverse=True) is stable: d goes behind
\* every element of the sorted list whose confidence is at least its own.
RECURSIVE InsertByConfidence(_, _)
InsertByConfidence(sorted, d) ==
    IF sorted = <<>> THEN <<d>>
    ELSE IF Head(sorted).confidence >= d.confidence
         THEN <<Head(sorted)>> \o InsertByConfidence(Tail(sorted), d)
         ELSE <<d>> \o sorted

RECURSIVE SortedByConfidence(_, _, _)
SortedByConfidence(list, i, acc) ==
    IF i > Len(list) THEN acc
    ELSE SortedByConfidence(list, i + 1, InsertByConfidence(acc, list[i]))

\* Lines 369-386.
FilterDetections(detections, allow_list) ==
    LET Keep(d) == ~BelowThreshold(d.confidence) /\ ~NotOfInterest(d.class_name, allow_list)
        filtered == SelectSeq(detections, Keep)
    IN IF Len(filtered) > MaxDetections
       THEN SubSeq(SortedByConfidence(filtered, 1, <<>>), 1, MaxDetections)
       ELSE filtered

\* The filter on its own: a detector with any allow-list, handed any list.
FilterSpecInit ==
    /\ TrackerInit /\ AlertInit /\ SinkInit /\ QueryInit /\ CamInit /\ DashInit
    /\ \E allow_list \in AllowLists, input \in FilterInputs :
          DetConfig(allow_list, input)

\* _filter_detections(detections)
FilterDetectionsCall ==
    /\ filter_result' = [called |-> TRUE,
                         result |-> FilterDetections(filter_input, classes_of_interest)]
    /\ UNCHANGED <<classes_of_interest, tick, filter_input, matched_ticks>>
    /\ UNCHANGED <<trackerVars, alertVars>>
    /\ UNCHANGED notDetVars

FilterNext == FilterDetectionsCall

FilterSpec == FilterSpecInit /\ [][FilterNext]_vars

\* The number of times x occurs in list.
Count(list, x) == Cardinality({i \in 1..Len(list) : list[i] = x})

\* C25: the result of the filter holds only detections with confidence >= the
\* threshold and a class of the allow-list (any class when the list is empty);
\* it holds all of them, in their order, when they are at most the maximum, and
\* otherwise exactly the maximum many of them, none of those left out having a
\* higher confidence than one that was kept.
C25_FilterMatchesReference ==
    filter_result.called =>
        LET Passes(d) == /\ d.confidence >= ConfidenceThreshold
                         /\ (classes_of_interest = {} \/ d.class_name \in classes_of_interest)
            reference == SelectSeq(filter_input, Passes)
            result == filter_result.result
        IN IF Len(reference) <= MaxDetections
           THEN result = reference
           ELSE /\ Len(result) = MaxDetections
                /\ \A x \in FilterDetectionSet : Count(result, x) <= Count(reference, x)
                /\ \A x, y \in FilterDetectionSet :
                      (Count(result, x) < Count(reference, x) /\ Count(result, y) > 0)
                          => x.confidence <= y.confidence

\* More detections than the maximum passed the threshold and the allow-list, and
\* one of them, whose confidence is the threshold, was left out for the others.
C25_Witness ==
    /\ filter_result.called
    /\ classes_of_interest # {}
    /\ Len(filter_result.result) = MaxDetections
    /\ \E i \in 1..Len(filter_input) :
          /\ filter_input[i].confidence = ConfidenceThreshold
          /\ filter_input[i].class_name \in classes_of_interest
          /\ Count(filter_result.result, filter_input[i]) = 0

(***************************************************************************)
(* AIDetector.process_frame: one tick of the pipeline.  The frame-rate     *)
(* counters of lines 541-547 are read by none of the statements modelled   *)
(* and are left out.                                                       *)
(***************************************************************************)
FrameCenters == {<<0, 0>>, <<37, 48>>}

\* What the YOLO and MediaPipe backends can deliver for a frame: persons, one of
\* them below the confidence threshold.
FrameDetections ==
    {[class_name |-> "person", center |-> c, confidence |-> 80] : c \in FrameCenters}
        \cup {[class_name |-> "person", center |-> <<0, 0>>, confidence |-> 40]}

PrimaryLists == UNION {[1..n -> FrameDetections] : n \in 0..MaxDets}

\* What the OpenCV fallback can deliver: nothing, or a face.
FallbackLists ==
    {<<>>, <<[class_name |-> "person", center |-> <<0, 0>>, confidence |-> 70]>>}

\* The time between two frames.
TickSteps == {0, 6}

\* detect_objects, lines 194-207: the detections of the YOLO and MediaPipe
\* backends, and those of OpenCV when they gave none.  A backend that raises
\* returns the detections it had appended (lines 252-255, 314-317, 362-365).
RawDetections(primary, fallback) == IF primary = <<>> THEN fallback ELSE primary

\* detection.track_id = ..., lines 417 and 428.
Annotate(detections, annotations) ==
    [i \in 1..Len(detections) |->
        [class_name |-> detections[i].class_name, center |-> detections[i].center,
         confidence |-> detections[i].confidence,
         track_id |-> annotations[i].track_id]]

\* detect_objects, lines 209-215: filter, then _update_tracking at time now.
DetectObjects(primary, fallback, now) ==
    LET filtered == FilterDetections(RawDetections(primary, fallback),
                                     classes_of_interest)
        r == Associate(tracked_objects, filtered, 1, now, <<>>, maxIssued)
        kept == Evict(r.table, now)
    IN [detections |-> Annotate(filtered, r.annot), table |-> kept,
        annot |-> r.annot, issued |-> r.issued,
        evicted |-> TrackIds(r.table) \ TrackIds(kept)]

\* Line 450.
PersonDetections(detections) ==
    LET IsPerson(d) == d.class_name = "person" IN SelectSeq(detections, IsPerson)

\* duration > self.loitering_time, line 457.
Loiters(duration) == duration > LoiteringTime

\* Lines 452-465: one signal per person detection whose track is that old.
LoiteringSignals(persons, table, now) ==
    LET Duration(d) == now - TrackOf(table, d.track_id).first_seen
        Loitering(d) == d.track_id \in TrackIds(table) /\ Loiters(Duration(d))
        found == SelectSeq(persons, Loitering)
    IN [i \in 1..Len(found) |->
          [activity_type |-> "loitering", confidence |-> 80,
           location |-> found[i].center,
           description |-> <<"loitering", Duration(found[i])>>]]

\* sum(c[k] for c in centers)
RECURSIVE SumCoord(_, _, _)
SumCoord(detections, k, i) ==
    IF i > Len(detections) THEN 0
    ELSE detections[i].center[k] + SumCoord(detections, k, i + 1)

\* A variant of CrowdReached that needs more persons than the threshold.
CrowdReachedGt(n) == n > CrowdThreshold

\* len(person_detections) >= self.crowd_threshold, line 468.
CrowdReached(n) == n >= CrowdThreshold

\* Lines 468-483.
CrowdSignals(persons) ==
    IF CrowdReached(Len(persons))
    THEN <<[activity_type |-> "crowd_detected", confidence |-> 90,
            location |-> <<SumCoord(persons, 1, 1) \div Len(persons),
                           SumCoord(persons, 2, 1) \div Len(persons)>>,
            description |-> <<"crowd", Len(persons)>>]>>
    ELSE <<>>

\* track_info['movement_history'] where the key is there (line 489); no
\* statement of the program stores that key in a track.
MovementHistory(track) ==
    IF "movement_history" \in DOMAIN track THEN track.movement_history ELSE <<>>

MovementThreshold == 200

\* np.sqrt(a2) + np.sqrt(b2) > limit, on the squares a2 and b2 of two distances.
SumOfRootsExceeds(a2, b2, limit) ==
    \/ a2 > limit * limit
    \/ limit * limit + a2 - b2 < 0
    \/ 4 * limit * limit * a2 > (limit * limit + a2 - b2) * (limit * limit + a2 - b2)

\* Lines 492-499: the path over the last three positions of a history.
RapidPath(history) ==
    /\ Len(history) > 2
    /\ SumOfRootsExceeds(Dist2(history[Len(history) - 2], history[Len(history) - 1]),
                         Dist2(history[Len(history) - 1], history[Len(history)]),
                         MovementThreshold)

\* Lines 486-507: one signal per person detection whose track holds a movement
\* history with such a path.
RapidMovementSignals(persons, table) ==
    LET Rapid(d) == /\ d.track_id \in TrackIds(table)
                    /\ "movement_history" \in DOMAIN TrackOf(table, d.track_id)
                    /\ RapidPath(MovementHistory(TrackOf(table, d.track_id)))
        found == SelectSeq(persons, Rapid)
    IN [i \in 1..Len(found) |->
          [activity_type |-> "rapid_movement", confidence |-> 70,
           location |-> found[i].center,
           description |-> <<"rapid_movement", 0>>]]

\* detect_suspicious_activity, lines 444-507.
SuspiciousActivities(detections, table, now) ==
    LoiteringSignals(PersonDetections(detections), table, now)
        \o CrowdSignals(PersonDetections(detections))
        \o RapidMovementSignals(PersonDetections(detections), table)

\* Alert(...), lines 390-398, with the message, the location and the confidence.
MakeAlertOf(id, type, message, severity, now, location, confidence) ==
    [alert_id |-> id, alert_type |-> type, message |-> message,
     severity |-> severity, timestamp |-> now, location |-> location,
     confidence |-> confidence, resolved |-> FALSE, resolution_time |-> None]

\* A variant of DefaultSeverity.
DefaultSeverityLow == "low"

\* severity: str = 'medium', line 367.
DefaultSeverity == "medium"

\* trigger_alert called by the pipeline thread, lines 386-403, with no other
\* producer in between: st holds the counter, the heap and the queue.
TriggerAlert(st, type, message, severity, location, confidence, now) ==
    LET counter == st.counter + 1
        alert == MakeAlertOf(MakeAlertId(type, now, counter), type, message,
                             severity, now, location, confidence)
        o == Len(st.heap) + 1
    IN [counter |-> counter, heap |-> Append(st.heap, alert),
        queue |-> Append(st.queue, o), enqueued |-> Append(st.enqueued, o)]

\* Lines 510-517: one trigger_alert per activity, with the default severity.
RECURSIVE SendAlerts(_, _, _, _)
SendAlerts(st, activities, i, now) ==
    IF i > Len(activities) THEN st
    ELSE SendAlerts(TriggerAlert(st, "suspicious_activity", activities[i].description,
                                 DefaultSeverity, activities[i].location,
                                 activities[i].confidence, now),
                    activities, i + 1, now)

MaxMatchedTicks == 3

\* What an observer of the frames counts after a frame: for every track of the
\* table, the consecutive frames (this one the last) in which a detection was
\* matched to it (lines 410-417), counted up to MaxMatchedTicks.  A track
\* created in this frame (lines 419-428) starts at 0.
MatchedTicks(before, annotations, table) ==
    [id \in TrackIds(table) |->
        LET created == {i \in 1..Len(annotations) :
                           annotations[i].isNew /\ annotations[i].track_id = id}
            matched == {i \in 1..Len(annotations) :
                           /\ ~annotations[i].isNew
                           /\ annotations[i].track_id = id
                           /\ \A c \in created : c < i}
        IN IF matched = {} THEN 0
           ELSE IF created # {} \/ id \notin DOMAIN before THEN 1
           ELSE Min(before[id] + 1, MaxMatchedTicks)]

\* process_frame(frame), lines 534-557, with an alert manager attached.  failed
\* tells that a detection backend raised while it worked on this frame.  The
\* clock readings of one call (lines 387, 391, 395, 447) return the same value.
\* observed tells that the frames are being counted by an observer.
ProcessFrameCall(observed, steps, primaries) ==
    \E dt \in steps :
      /\ current_time + dt <= MaxTime
      /\ \E primary \in primaries :
          \E fallback \in (IF primary = <<>> THEN FallbackLists ELSE {<<>>}) :
            \E now \in {current_time + dt} :
              \E det \in {DetectObjects(primary, fallback, now)} :
                \E activities \in {SuspiciousActivities(det.detections, det.table, now)} :
                  /\ Len(enqueued) + Len(activities) <= MaxQueued
                  /\ \E st \in {SendAlerts([counter |-> alert_counter, heap |-> heap,
                                            queue |-> alert_queue,
                                            enqueued |-> enqueued],
                                           activities, 1, now)} :
                        /\ alert_counter' = st.counter
                        /\ heap' = st.heap
                        /\ alert_queue' = st.queue
                        /\ enqueued' = st.enqueued
                  /\ tracked_objects' = det.table
                  /\ current_time' = now
                  /\ annot' = det.annot
                  /\ evicted' = det.evicted
                  /\ maxIssued' = det.issued
                  /\ matched_ticks' = IF observed
                                      THEN MatchedTicks(matched_ticks, det.annot, det.table)
                                      ELSE matched_ticks
                  /\ clock' = IF activities = <<>> THEN clock ELSE now
                  /\ \E failed \in BOOLEAN :
                        tick' = [called |-> TRUE, failed |-> failed,
                                 detections |-> det.detections,
                                 activities |-> activities,
                                 raised |-> ExceptException(failed)]
      /\ UNCHANGED <<active_alerts, alert_history, is_running, ppc, p_tmp,
                     p_obj, rpc, r_id, r_alert, wpc, w_alert, cpc>>
      /\ UNCHANGED <<classes_of_interest, filter_input, filter_result>>
      /\ UNCHANGED besideDetVars

Frame(observed) ==
    ProcessFrameCall(observed, TickSteps, PrimaryLists) /\ UNCHANGED <<camVars, dashVars>>

ProcessFrame == Frame(FALSE)

ProcessFrameObserved == Frame(TRUE)

DetectorNext == ProcessFrame

\* The pipeline, frame by frame.
DetectorSpec == Init /\ [][DetectorNext]_vars

ObservedNext == ProcessFrameObserved

\* The pipeline, frame by frame, with an observer counting the frames.
ObservedSpec == Init /\ [][ObservedNext]_vars

(***************************************************************************)
(* Dashboard                                                               *)
(***************************************************************************)
\* The next thread object threading.Thread(target=self.update_loop) creates.
NewUpdater ==
    CHOOSE t \in Updaters : upc[t] = "unborn" /\ \A u \in Updaters : u < t => upc[u] # "unborn"

\* The START SURVEILLANCE button, when enabled: ControlPanel.start_surveillance
\* calls Dashboard.start_surveillance (lines 667-691), which returns when
\* start_capture() fails and otherwise sets the flags and starts a new update
\* loop; then the button states are set.
StartSurveillance ==
    /\ start_button = "normal"
    /\ \E t \in Updaters : upc[t] = "unborn"
    /\ StartCaptureCall
    /\ IF last_op' = "start_true"
       THEN /\ is_surveillance_active' = TRUE
            /\ running' = TRUE
            /\ update_thread' = NewUpdater
            /\ upc' = [upc EXCEPT ![NewUpdater] = "u_check"]
       ELSE UNCHANGED <<is_surveillance_active, running, update_thread, upc>>
    /\ start_button' = "disabled"
    /\ stop_button' = "normal"

\* The STOP SURVEILLANCE button, when enabled: ControlPanel.stop_surveillance
\* calls Dashboard.stop_surveillance (lines 693-713), which clears the flags and
\* calls stop_capture() (its join is StopJoin); the update loop is not joined.
\* The button states are set when the call has returned: no other click is
\* served in between.
StopSurveillance ==
    /\ stop_button = "normal"
    /\ is_surveillance_active' = FALSE
    /\ running' = FALSE
    /\ StopCaptureCall
    /\ start_button' = "normal"
    /\ stop_button' = "disabled"
    /\ UNCHANGED <<update_thread, upc>>

\* update_loop: while self.running
UpdateCheck(t) ==
    /\ upc[t] = "u_check"
    /\ upc' = [upc EXCEPT ![t] = IF running THEN "u_get" ELSE "exited"]
    /\ UNCHANGED <<running, is_surveillance_active, update_thread, start_button,
                   stop_button>>
    /\ UNCHANGED <<camVars, besideCamVars>>

\* frame = self.camera_manager.get_frame(); with a frame the loop enters
\* process_frame, with None it sleeps and tests the flag again.
UpdateGet(t) ==
    /\ upc[t] = "u_get"
    /\ GetFrameCall
    /\ upc' = [upc EXCEPT ![t] = IF last_get'.result # NoFrame THEN "u_process"
                                 ELSE "u_check"]
    /\ UNCHANGED <<running, is_surveillance_active, update_thread, start_button,
                   stop_button>>

\* What the camera of the dashboard faces: a scene in which the YOLO and
\* MediaPipe backends find nothing, and the OpenCV fallback a face or nothing.
ScenePrimaries == {<<>>}

\* process_frame(frame) returns (lines 721-733: the calls after it read only),
\* then the loop sleeps and tests the flag again.
UpdateProcess(t) ==
    /\ upc[t] = "u_process"
    /\ ProcessFrameCall(FALSE, TickSteps, ScenePrimaries)
    /\ upc' = [upc EXCEPT ![t] = "u_check"]
    /\ UNCHANGED <<running, is_surveillance_active, update_thread, start_button,
                   stop_button>>
    /\ UNCHANGED camVars

\* The update loops that are inside process_frame.
InProcessFrame == {t \in Updaters : upc[t] = "u_process"}

DashboardNext ==
    \/ InitializeCamera
    \/ StartSurveillance
    \/ StopSurveillance
    \/ StopJoin
    \/ \E t \in Loops :
          \/ LoopCheck(t)
          \/ LoopRead(t)
          \/ LoopStore(t)
          \/ LoopPut(t)
          \/ LoopEvict(t)
          \/ LoopPutAgain(t)
    \/ \E t \in Updaters :
          \/ UpdateCheck(t)
          \/ UpdateGet(t)
          \/ UpdateProcess(t)

\* The dashboard with its camera, its pipeline and its two buttons.
DashboardSpec == Init /\ [][DashboardNext]_vars

(***************************************************************************)
(* Pipeline properties                                                     *)
(***************************************************************************)
\* The activities of the given type among those of the last tick.
ActivitiesOf(type) ==
    LET IsType(a) == a.activity_type = type IN SelectSeq(tick.activities, IsType)

\* C24: a tick in which a detection backend fails yields no detection and no
\* suspicious activity, lets no exception out of process_frame, and leaves the
\* track table as it was.
C24_DetectorFailureRecoverable ==
    [][tick'.failed =>
          /\ tick'.detections = <<>>
          /\ tick'.activities = <<>>
          /\ ~tick'.raised
          /\ tracked_objects' = tracked_objects]_vars

\* C26: a tick whose person detections are at least the crowd threshold yields
\* exactly one crowd_detected signal, located at the floor of the mean of the
\* person centers in each coordinate; a tick with fewer yields none.
C26_OneCrowdSignal ==
    tick.called =>
        LET persons == PersonDetections(tick.detections)
            n == Len(persons)
            crowd == ActivitiesOf("crowd_detected")
        IN IF n >= CrowdThreshold
           THEN /\ Len(crowd) = 1
                /\ \A k \in {1, 2} :
                      /\ n * crowd[1].location[k] <= SumCoord(persons, k, 1)
                      /\ SumCoord(persons, k, 1) < n * (crowd[1].location[k] + 1)
           ELSE crowd = <<>>

\* The last tick yielded a crowd signal at a mean that is not a whole number.
C26_Witness ==
    /\ tick.called
    /\ Len(ActivitiesOf("crowd_detected")) = 1
    /\ Len(PersonDetections(tick.detections)) * ActivitiesOf("crowd_detected")[1].location[1]
          # SumCoord(PersonDetections(tick.detections), 1, 1)

\* C27: the loitering signals of a tick are as many as the person tracks of the
\* table whose age, at the clock reading of the tick, exceeds the loitering time.
C27_OneLoiteringPerTrack ==
    tick.called =>
        Len(ActivitiesOf("loitering")) =
            Cardinality({i \in 1..Len(tracked_objects) :
                            /\ tracked_objects[i].class = "person"
                            /\ current_time - tracked_objects[i].first_seen
                                  > LoiteringTime})

\* C28: a tick puts one alert on the queue per activity it yields, in their
\* order, each with the description, the location and the confidence of its
\* activity and with severity medium; a tick with a single person detection
\* whose track is older than the loitering time puts exactly one.
C28_OneAlertPerSignal ==
    [][LET acts == tick'.activities
           new == SubSeq(enqueued', Len(enqueued) + 1, Len(enqueued'))
           dets == tick'.detections
       IN /\ Len(enqueued') = Len(enqueued) + Len(acts)
          /\ alert_queue' = alert_queue \o new
          /\ \A k \in 1..Len(acts) :
                LET a == heap'[new[k]]
                IN /\ a.message = acts[k].description
                   /\ a.location = acts[k].location
                   /\ a.confidence = acts[k].confidence
                   /\ a.severity = "medium"
          /\ (/\ Len(dets) = 1
              /\ dets[1].class_name = "person"
              /\ current_time'
                    - TrackOf(tracked_objects', dets[1].track_id).first_seen
                    > LoiteringTime)
                => (Len(new) = 1 /\ heap'[new[1]].severity = "medium")]_vars

\* The last tick saw one person, loitering, and its alert is the last of the
\* queue, behind the alert of an earlier tick.
C28_Witness ==
    /\ tick.called
    /\ Len(tick.detections) = 1
    /\ Len(tick.activities) = 1
    /\ tick.activities[1].activity_type = "loitering"
    /\ Len(alert_queue) >= 2
    /\ heap[alert_queue[Len(alert_queue)]].message = tick.activities[1].description
    /\ heap[alert_queue[Len(alert_queue)]].severity = "medium"

TrackerNext == UpdateTracking

\* The tracker, driven tick by tick.
TrackerSpec == Init /\ [][TrackerNext]_vars

Threshold2 == AssocThreshold * AssocThreshold

\* The tracker after an update at time 0 that created track 2 for a person at
\* the last center and evicted track 1, last seen at the first center more than
\* the timeout before: the table holds one track, under id 2.
AfterEvictionInit ==
    /\ tracked_objects =
          <<NewTrack(2, [class_name |-> "person", center |-> <<60, 80>>,
                         confidence |-> 8], 0)>>
    /\ current_time = 0
    /\ annot = <<[track_id |-> 2, isNew |-> TRUE, d2 |-> Threshold2, issued |-> 1]>>
    /\ evicted = {1}
    /\ maxIssued = 2
    /\ AlertInit /\ SinkInit /\ QueryInit /\ CamInit /\ DetInit /\ DashInit

\* The tracker driven tick by tick from there.
AfterEvictionSpec == AfterEvictionInit /\ [][TrackerNext]_vars

(***************************************************************************)
(* Tracker properties                                                      *)
(***************************************************************************)
\* C1: the id of every newly created track is strictly greater than every id
\* handed out before it (ids are never reused, also after evictions).
C1_IdsNeverReused ==
    \A i \in 1..Len(annot) : annot[i].isNew => annot[i].track_id > annot[i].issued

\* C2 as stated: a detection assigned to an existing track is at distance <= the
\* threshold from that track's previous center, and a detection given a new
\* track is at distance > the threshold from every live track of its class.
C2_AssociationAsStated ==
    \A i \in 1..Len(annot) :
        /\ ~annot[i].isNew => annot[i].d2 <= Threshold2
        /\ annot[i].isNew => (annot[i].d2 = -1 \/ annot[i].d2 > Threshold2)

\* C2 amended: a detection assigned to an existing track is at distance < the
\* threshold (hence <=) from that track's previous center, and a detection given
\* a new track is at distance >= the threshold from every live track of its
\* class: at distance exactly the threshold a new track is created.
C2_AssociationThreshold ==
    \A i \in 1..Len(annot) :
        /\ ~annot[i].isNew => annot[i].d2 < Threshold2
        /\ annot[i].isNew => (annot[i].d2 = -1 \/ annot[i].d2 >= Threshold2)

\* In one tick a detection got a new track at distance exactly the threshold from
\* a live track of its class, and another was matched to a track it had moved from.
C2_Witness ==
    /\ \E i \in 1..Len(annot) : annot[i].isNew /\ annot[i].d2 = Threshold2
    /\ \E i \in 1..Len(annot) : ~annot[i].isNew /\ annot[i].d2 > 0

\* C3: after an update at time current_time no track of the table was last seen
\* more than the inactivity timeout before current_time.
C3_NoStaleTrack ==
    \A i \in 1..Len(tracked_objects) :
        current_time - tracked_objects[i].last_seen <= TrackTimeout

\* The last update evicted a timed-out track and kept another one.
C3_Witness == evicted # {} /\ tracked_objects # <<>>

\* C29: with a clock that never runs backwards, the last-seen time recorded
\* under a track id never decreases (from one update to the next while the id
\* stays in the table, and when the id is given to a track again after an
\* eviction: every last-seen recorded is at most the clock of its update), and
\* first-seen <= last-seen holds for every track of the table after every update
\* (the table is empty before the first one).
C29_LastSeenMonotone ==
    [][\A j \in 1..Len(tracked_objects') :
          LET t == tracked_objects'[j]
          IN /\ t.first_seen <= t.last_seen
             /\ t.last_seen <= current_time'
             /\ IF t.id \in TrackIds(tracked_objects)
                THEN TrackOf(tracked_objects, t.id).last_seen <= t.last_seen
                ELSE current_time <= t.last_seen]_vars

\* A track of the table was matched again after it was first seen, and the last
\* update created a track under an id that had been issued before.
C29_Witness ==
    /\ \E i \in 1..Len(tracked_objects) :
          tracked_objects[i].first_seen < tracked_objects[i].last_seen
    /\ \E i \in 1..Len(annot) : annot[i].isNew /\ annot[i].track_id <= annot[i].issued

\* C30: creating a track never disturbs a live one: for every table the tracker
\* can hold and every detection that is not matched against it, the table gains
\* exactly one entry, under an id that was not a key, and every track of the
\* table keeps its class, first-seen, last-seen and center.
C30_NewTrackKeepsLiveTracks ==
    \A det \in Detections, now \in current_time..MaxTime :
        LET r == ProcessDetection(tracked_objects, det, now)
        IN r.isNew =>
              /\ r.track_id \notin TrackIds(tracked_objects)
              /\ Len(r.table) = Len(tracked_objects) + 1
              /\ \A tid \in TrackIds(tracked_objects) :
                    LET old == TrackOf(tracked_objects, tid)
                        new == TrackOf(r.table, tid)
                    IN /\ new.class = old.class
                       /\ new.first_seen = old.first_seen
                       /\ new.last_seen = old.last_seen
                       /\ new.last_center = old.last_center

\* What C31 asks of one detection: seen is the table it is matched against.
GreedyChoice(seen, det, track_id, isNew) ==
    \A m \in {NearestDist2(seen, det)} :
        LET cands == {j \in 1..Len(seen) : seen[j].class = det.class_name}
            AtMin(j) == Dist2(det.center, seen[j].last_center) = m
            first == CHOOSE j \in cands : AtMin(j) /\ \A k \in cands : k < j => ~AtMin(k)
        IN IF m # -1 /\ m < Threshold2
           THEN ~isNew /\ track_id = seen[first].id
           ELSE isNew

\* C31: the detections of a tick are processed in list order, each against the
\* table as the detections before it left it: it is assigned to the same-class
\* track at minimum center distance when that minimum is below the threshold
\* (the earliest of the table among those at the minimum), and gets a new track
\* otherwise.  Stated for every table the tracker can hold and every list of
\* two detections.
C31_GreedyInListOrder ==
    \A d1 \in Detections :
      \A r1 \in {ProcessDetection(tracked_objects, d1, current_time)} :
        /\ GreedyChoice(tracked_objects, d1, r1.track_id, r1.isNew)
        /\ \A d2 \in Detections :
              \A r \in {Associate(tracked_objects, <<d1, d2>>, 1, current_time,
                                  <<>>, maxIssued)} :
                /\ r.annot[1].track_id = r1.track_id
                /\ r.annot[1].isNew = r1.isNew
                /\ GreedyChoice(r1.table, d2, r.annot[2].track_id, r.annot[2].isNew)

\* The last update matched its second detection to the track it had created for
\* its first one, and the table holds two person tracks at the same distance,
\* below the threshold, from a center, the first of them under the greater id.
C31_Witness ==
    /\ Len(annot) = 2
    /\ annot[1].isNew /\ ~annot[2].isNew
    /\ annot[2].track_id = annot[1].track_id
    /\ \E c \in Centers, i, j \in 1..Len(tracked_objects) :
          /\ i < j
          /\ tracked_objects[i].id > tracked_objects[j].id
          /\ tracked_objects[i].class = "person"
          /\ tracked_objects[j].class = "person"
          /\ Dist2(c, tracked_objects[i].last_center)
                = Dist2(c, tracked_objects[j].last_center)
          /\ Dist2(c, tracked_objects[i].last_center) < Threshold2

\* C32: every match pushes the center of the detection to the history of the
\* matched track: a track that the last update matched (and did not create
\* anew afterwards) holds at least one history point, the last of them the
\* center it was matched at last.
C32_HistoryOnMatch ==
    \A i \in 1..Len(annot) :
        (/\ ~annot[i].isNew
         /\ \A j \in (i + 1)..Len(annot) : annot[j].track_id # annot[i].track_id)
            => LET t == TrackOf(tracked_objects, annot[i].track_id)
               IN /\ MovementHistory(t) # <<>>
                  /\ MovementHistory(t)[Len(MovementHistory(t))] = t.last_center

\* C37: within one update distinct detections are annotated with distinct track
\* ids: no track is assigned to two detections of the same tick.
C37_DistinctTrackIds ==
    \A i, j \in 1..Len(annot) : i < j => annot[i].track_id # annot[j].track_id

\* C40: eviction runs after the association: a track whose inactivity exceeds
\* the timeout when an update starts and which a detection of that update is
\* matched to (before any track is created under its id in that update) is in
\* the table after the update, under its id, with its first-seen and with
\* last-seen at the clock of the update.
C40_StaleMatchedTrackKept ==
    [][\A j \in 1..Len(tracked_objects) :
          LET t == tracked_objects[j]
              MatchedFirst(i) ==
                  /\ annot'[i].track_id = t.id
                  /\ ~annot'[i].isNew
                  /\ \A k \in 1..(i - 1) : annot'[k].track_id # t.id
          IN (/\ Expired(t, current_time')
              /\ \E i \in 1..Len(annot') : MatchedFirst(i))
                => /\ t.id \in TrackIds(tracked_objects')
                   /\ TrackOf(tracked_objects', t.id).first_seen = t.first_seen
                   /\ TrackOf(tracked_objects', t.id).last_seen = current_time']_vars

(***************************************************************************)
(* Dashboard properties                                                    *)
(***************************************************************************)
\* C36: no two ticks overlap: whatever the sequence of start_surveillance and
\* stop_surveillance calls, at most one update loop is inside process_frame.
C36_NoOverlappingTicks == Cardinality(InProcessFrame) <= 1

====
